---- MODULE Spec2Model ----
(***************************************************************************)
(* Note-and-media lifecycle and moderation workflow of the travel-journal  *)
(* application (aca123456789/travel).                                      *)
(*                                                                         *)
(* The database tables travel_notes and note_media are the state.  Every   *)
(* route action (publish, edit, my-notes delete, admin approve / reject /  *)
(* delete) is an action of the model.  A handler that issues several       *)
(* database statements with an `await` between them is split at the        *)
(* statements that write: the code opens no transaction, so other          *)
(* requests interleave between them.  A request that is between two        *)
(* statements is held in `inflight`.                                       *)
(*                                                                         *)
(* The users table with register and the settings action, and the React    *)
(* state of the publish form with its upload queue, are modelled next to   *)
(* them, each with a specification of its own.                             *)
(***************************************************************************)
EXTENDS Integers, Sequences, FiniteSets, TLC

VARIABLES
    notes,      \* travel_notes rows; the row of note id is notes[id]
    noteMedia,  \* note_media rows of note id, in insertion order: noteMedia[id]
    inflight,   \* per request slot: the request that is between two statements
    users,      \* users rows; the row of user id is users[id]
    registering,    \* per register call: its position and what it returned
    mediaItems,     \* publish form: the media list shown to the user
    isUploading,    \* publish form: an upload has been started and not handled
    uploadQueue,    \* publish form: the files waiting for their upload
    currentUpload,  \* publish form: the file of the upload that was started
    uploadFetcher   \* publish form: the fetcher that posts to /api/upload

\* The registered accounts and the running register calls.
accountVars == <<users, registering>>

\* The React state of the publish form in one browser tab.
formVars == <<mediaItems, isUploading, uploadQueue, currentUpload, uploadFetcher>>

vars == <<notes, noteMedia, inflight, accountVars, formVars>>

\* A request that is answered before any statement has written.
Refused == UNCHANGED vars

----------------------------------------------------------------------------
(* Bounds *)

MaxNotes == 2
MaxInFlight == 1
ConcurrentCalls == 2

----------------------------------------------------------------------------
(* Values *)

NULL == "<null>"
UNDEFINED == "<undefined>"

\* The elements of a sequence.
Range(s) == {s[k] : k \in 1 .. Len(s)}

\* note_status enum
NoteStatus == {"pending", "approved", "rejected"}

\* users rows: the three users the seed script creates, and one row with the
\* remaining value of the user_role enum.
Users == {"user1", "user2", "admin", "auditor1"}

userRole(u) ==
    CASE u = "admin" -> "admin"
      [] u = "auditor1" -> "auditor"
      [] OTHER -> "user"

\* The principal of a request to the user site: a users row, or nobody.
ANON == "<anonymous>"
Callers == Users \cup {ANON}

\* The users who publish notes.
Publishers == {"user1", "user2"}

\* getLoggedInUser: the session's users row, or null.
getLoggedInUser(caller) == IF caller \in Users THEN caller ELSE NULL

\* The principal of a request to the admin site.
AdminCallers == {ANON, "staffAuditor", "staffAdmin"}

adminRole(a) ==
    CASE a = "staffAdmin" -> "admin"
      [] a = "staffAuditor" -> "auditor"
      [] OTHER -> NULL

\* requireAdminUser: the admin principal, or no access to the admin routes.
requireAdminUser(a) == adminRole(a) \in {"auditor", "admin"}

----------------------------------------------------------------------------
(* Text *)

\* String.prototype.trim on a text written as a sequence of characters.
RECURSIVE TrimLeft(_)
TrimLeft(s) ==
    IF s = <<>> THEN <<>>
    ELSE IF Head(s) = " " THEN TrimLeft(Tail(s)) ELSE s

RECURSIVE TrimRight(_)
TrimRight(s) ==
    IF s = <<>> THEN <<>>
    ELSE IF s[Len(s)] = " " THEN TrimRight(SubSeq(s, 1, Len(s) - 1)) ELSE s

trim(s) == TrimRight(TrimLeft(s))

----------------------------------------------------------------------------
(* Request inputs *)

\* JavaScript truthiness of an optional string.
truthy(s) == s \notin {"", NULL, UNDEFINED}

Image(u) == [type |-> "image", url |-> u]
Video(u) == [type |-> "video", url |-> u]

\* Forms posted to the publish route.  `status` is a field a caller may add
\* to the request; the route and createNote read title, content, location and
\* the media lists only.
PublishForms ==
    { [title |-> <<"L", "i">>, content |-> <<"x">>, location |-> "Lijiang",
       media |-> <<Image("a"), Image("b"), Image("c")>>, status |-> "approved"],
      [title |-> <<"L", "i">>, content |-> <<"x">>, location |-> "Lijiang",
       media |-> <<Image("a"), Image("b"), Image("c")>>, status |-> UNDEFINED],
      [title |-> <<" ">>, content |-> <<"x">>, location |-> "",
       media |-> <<Image("a")>>, status |-> "rejected"],
      [title |-> <<"L", "i">>, content |-> <<"x">>, location |-> "Lijiang",
       media |-> <<>>, status |-> UNDEFINED],
      [title |-> <<>>, content |-> <<"x">>, location |-> "Lijiang",
       media |-> <<Image("a")>>, status |-> UNDEFINED],
      [title |-> <<"L", "i">>, content |-> <<>>, location |-> "Lijiang",
       media |-> <<Image("a")>>, status |-> UNDEFINED] }

\* Forms posted to the edit route.
EditForms ==
    { [title |-> <<"S">>, content |-> <<"y">>, location |-> "",
       media |-> <<Image("b")>>],
      [title |-> <<"S">>, content |-> <<>>, location |-> "Dali",
       media |-> <<Image("a")>>],
      [title |-> <<"S">>, content |-> <<"y">>, location |-> "",
       media |-> <<Video("v")>>] }

\* The rejectionReason field of the admin form: absent, empty, or a text.
ReasonInputs == {NULL, "", " r "}

\* The noteId field of a form: absent, or the id of a note that may exist.
NoId == 0
NoteIdInputs == {NoId} \cup (1 .. MaxNotes)

----------------------------------------------------------------------------
(* notes.server.ts: reads *)

NoteIds == DOMAIN notes

\* One travel_notes row with its id and its media relation.
WithMedia(id) ==
    [found |-> TRUE, id |-> id, note |-> notes[id], media |-> noteMedia[id]]

\* The result of findFirst when no row matches.
NotFound == [found |-> FALSE]

\* Sequence of the ids in `ids`, newest first.  createdAt is the insertion
\* instant, so a later note has the larger id.
RECURSIVE NewestFirst(_)
NewestFirst(ids) ==
    IF ids = {} THEN <<>>
    ELSE LET m == CHOOSE i \in ids : \A j \in ids : j <= i
         IN <<m>> \o NewestFirst(ids \ {m})

\* LIMIT l OFFSET o
Slice(s, l, o) == SubSeq(s, o + 1, IF o + l < Len(s) THEN o + l ELSE Len(s))

getNoteById(id) == IF id \in NoteIds THEN WithMedia(id) ELSE NotFound

\* The media relation of getNoteById is `media: true`, a query without ORDER
\* BY: the rows of the note come back in an order the database chooses.
getNoteById_media(id) ==
    LET rows == noteMedia[id]
    IN {[k \in 1 .. Len(rows) |-> rows[p[k]]] : p \in Permutations(1 .. Len(rows))}

getUserNotes(userId) ==
    NewestFirst({i \in NoteIds : notes[i].userId = userId})

getPublishedNotes_NoStatusFilter(limit, offset) ==
    Slice(NewestFirst({i \in NoteIds : ~notes[i].isDeleted}), limit, offset)

getPublishedNotes(limit, offset) ==
    Slice(NewestFirst({i \in NoteIds :
              notes[i].status = "approved" /\ notes[i].isDeleted = FALSE}),
          limit, offset)

\* users.nickname
nickname(u) ==
    CASE u = "user1" -> <<"L", "u">>
      [] u = "user2" -> <<"B", "o">>
      [] u = "admin" -> <<"A">>
      [] OTHER -> <<"Q">>

\* SQL LIKE: % matches any run of characters, _ any one character.
RECURSIVE Like(_, _)
Like(t, p) ==
    IF p = <<>> THEN t = <<>>
    ELSE IF Head(p) = "%"
         THEN Like(t, Tail(p)) \/ (t # <<>> /\ Like(Tail(t), p))
         ELSE /\ t # <<>>
              /\ (Head(p) = "_" \/ Head(p) = Head(t))
              /\ Like(Tail(t), Tail(p))

\* Math.ceil(a / b) for b > 0
Ceil(a, b) == (a + b - 1) \div b

\* The WHERE clause of getNotesForReview.  status and search are optional.
reviewWhere(i, status, search) ==
    /\ notes[i].isDeleted = FALSE
    /\ (truthy(status) => notes[i].status = status)
    /\ (search # <<>> =>
          \/ Like(notes[i].title, <<"%">> \o search \o <<"%">>)
          \/ Like(nickname(notes[i].userId), <<"%">> \o search \o <<"%">>))

getNotesForReview_OffsetFromPage(status, page, limit, search) ==
    LET matching == {i \in NoteIds : reviewWhere(i, status, search)}
        count == Cardinality(matching)
    IN [notes |-> Slice(NewestFirst(matching), limit, page * limit),
        pagination |-> [page |-> page, limit |-> limit, total |-> count,
                        totalPages |-> Ceil(count, limit)]]

getNotesForReview(status, page, limit, search) ==
    LET matching == {i \in NoteIds : reviewWhere(i, status, search)}
        count == Cardinality(matching)
    IN [notes |-> Slice(NewestFirst(matching), limit, (page - 1) * limit),
        pagination |-> [page |-> page, limit |-> limit, total |-> count,
                        totalPages |-> Ceil(count, limit)]]

----------------------------------------------------------------------------
(* Loaders of the user site *)

\* _index loader, popularDestinations: LIMIT 6
PopularLimit == 6

\* _index loader, popularDestinations: WHERE status = 'approved' GROUP BY
\* location, with count(*) of each group.
destinationGroups ==
    LET approved == {i \in NoteIds : notes[i].status = "approved"}
    IN {[location |-> l,
         count |-> Cardinality({i \in approved : notes[i].location = l})] :
        l \in {notes[i].location : i \in approved}}

\* _index loader, popularDestinations: ORDER BY count(*) DESC LIMIT 6.  Groups
\* of equal count come in an order the database chooses.
popularDestinations ==
    LET n == Cardinality(destinationGroups)
        ordered == {s \in [1 .. n -> destinationGroups] :
                       /\ \A j, k \in 1 .. n : j # k => s[j] # s[k]
                       /\ \A k \in 1 .. n - 1 : s[k].count >= s[k + 1].count}
    IN {Slice(s, PopularLimit, 0) : s \in ordered}

\* _user.note.$id loader: who may see the note that getNoteById returned.
noteVisible_NoOwnerCheck(user, note) ==
    ~(note.status # "approved" /\ (user = NULL \/ userRole(user) # "admin"))

noteVisible(user, note) ==
    ~(note.status # "approved"
        /\ (user = NULL \/ (user # note.userId /\ userRole(user) # "admin")))

\* _user.note.$id loader: the response status.
NoteLoader(caller, id) ==
    LET user == getLoggedInUser(caller)
        found == getNoteById(id)
    IN IF ~found.found THEN "404"
       ELSE IF ~noteVisible(user, found.note) THEN "403"
       ELSE "200"

\* _user.my-notes loader: the notes shown to the logged-in user.
activeNotes_NoFilter(fetched) == fetched

activeNotes(fetched) == SelectSeq(fetched, LAMBDA i : ~notes[i].isDeleted)

MyNotesLoader(caller) ==
    LET user == getLoggedInUser(caller)
    IN IF user = NULL THEN <<>> ELSE activeNotes(getUserNotes(user))

----------------------------------------------------------------------------
(* notes.server.ts: writes, one operator per database statement *)

\* The mediaArray a route builds from mediaUrls[] and mediaTypes[].
mediaArray(media) ==
    [i \in 1 .. Len(media) |->
        [type |-> media[i].type, url |-> media[i].url, order |-> i - 1]]

\* createNote / updateNote: media.map((m, index) => row)
mediaRows(media) ==
    [i \in 1 .. Len(media) |->
        [mediaType |-> media[i].type, url |-> media[i].url,
         order |-> IF "order" \in DOMAIN media[i] THEN media[i].order ELSE i - 1]]

\* INSERT INTO note_media the rows of `media` for note id
insertMedia(nm, id, media) == [nm EXCEPT ![id] = @ \o mediaRows(media)]

deleteMedia_None(nm, id) == nm

\* DELETE FROM note_media WHERE note_id = id
deleteMedia(nm, id) == [nm EXCEPT ![id] = <<>>]

\* createNote: the values of the inserted travel_notes row.
createNote_values_SuppliedStatus(args) ==
    [userId |-> args.userId, title |-> args.title, content |-> args.content,
     location |-> IF args.location = UNDEFINED THEN "" ELSE args.location,
     status |-> IF args.status \in NoteStatus THEN args.status ELSE "pending",
     rejectionReason |-> NULL, isDeleted |-> FALSE]

createNote_values(args) ==
    [userId |-> args.userId, title |-> args.title, content |-> args.content,
     location |-> IF args.location = UNDEFINED THEN "" ELSE args.location,
     status |-> "pending",
     rejectionReason |-> NULL, isDeleted |-> FALSE]

updateNote_set_OwnerReset(row, args, existingLocation) ==
    [row EXCEPT !.title = args.title,
                !.content = args.content,
                !.location = IF truthy(args.location) THEN args.location
                             ELSE existingLocation,
                !.status = "pending",
                !.userId = "admin"]

updateNote_set_Undeletes(row, args, existingLocation) ==
    [row EXCEPT !.title = args.title,
                !.content = args.content,
                !.location = IF truthy(args.location) THEN args.location
                             ELSE existingLocation,
                !.status = "pending",
                !.isDeleted = FALSE]

\* updateNote: the SET clause applied to the row.
updateNote_set(row, args, existingLocation) ==
    [row EXCEPT !.title = args.title,
                !.content = args.content,
                !.location = IF truthy(args.location) THEN args.location
                             ELSE existingLocation,
                !.status = "pending"]

\* UPDATE travel_notes SET ... WHERE id = noteId
UpdateWhereId(ns, noteId, set(_)) ==
    [i \in DOMAIN ns |-> IF i = noteId THEN set(ns[i]) ELSE ns[i]]

updateNoteStatus_StoreAnyReason(ns, noteId, status, rejectionReason) ==
    LET set(row) == IF rejectionReason = UNDEFINED
                    THEN [row EXCEPT !.status = status]
                    ELSE [row EXCEPT !.status = status,
                                     !.rejectionReason = rejectionReason]
    IN UpdateWhereId(ns, noteId, set)

updateNoteStatus_DropReason(ns, noteId, status, rejectionReason) ==
    LET set(row) == [row EXCEPT !.status = status, !.rejectionReason = NULL]
    IN UpdateWhereId(ns, noteId, set)

\* updateNoteStatus.  A key whose value is undefined is left out of SET.
updateNoteStatus(ns, noteId, status, rejectionReason) ==
    LET reason == IF status = "rejected" THEN rejectionReason ELSE NULL
        set(row) == IF reason = UNDEFINED
                    THEN [row EXCEPT !.status = status]
                    ELSE [row EXCEPT !.status = status,
                                     !.rejectionReason = reason]
    IN UpdateWhereId(ns, noteId, set)

adminDeleteNote_ResetsStatus(ns, noteId) ==
    LET set(row) == [row EXCEPT !.isDeleted = TRUE, !.status = "pending"]
    IN UpdateWhereId(ns, noteId, set)

\* adminDeleteNote
adminDeleteNote(ns, noteId) ==
    LET set(row) == [row EXCEPT !.isDeleted = TRUE]
    IN UpdateWhereId(ns, noteId, set)

findFirst_AnyOwner(id, userId) == id \in NoteIds

\* updateNote, deleteNote: findFirst(id, userId) finds a row.
findFirst(id, userId) ==
    id \in NoteIds /\ notes[id].userId = userId

deleteNote_set_Toggle(ns, id) ==
    LET set(row) == [row EXCEPT !.isDeleted = ~row.isDeleted]
    IN UpdateWhereId(ns, id, set)

\* deleteNote: the logical delete.
deleteNote_set(ns, id) ==
    LET set(row) == [row EXCEPT !.isDeleted = TRUE]
    IN UpdateWhereId(ns, id, set)

----------------------------------------------------------------------------
(* auth.server.ts register and the _user.settings action *)

\* Inputs of register and of the settings form; <<>> is a nickname field that
\* is empty or absent.
Usernames == {"amy", "bob"}
Nicknames == {<<"A">>, <<"B">>}
SettingsNicknames == Nicknames \cup {<<>>, <<" ">>}
AvatarInputs == {UNDEFINED, "", "/upload/p.png"}
RegisterArgs == [username : Usernames, nickname : Nicknames]

\* The register calls that run at the same time.
Registrations == 1 .. ConcurrentCalls

\* A register call that is not running, with what its last run returned.
Returned(result) == [pc |-> "idle", returned |-> result]

usersUnique_UsernameOnly(us) ==
    \A i, j \in DOMAIN us : i # j => us[i].username # us[j].username

\* users_username_unique and users_nickname_unique: the rows the table accepts.
usersUnique(us) ==
    \A i, j \in DOMAIN us :
        i # j => us[i].username # us[j].username /\ us[i].nickname # us[j].nickname

\* register: SELECT ... WHERE username = $1 LIMIT 1
register_SelectUsername(w, args) ==
    /\ registering[w].pc = "idle"
    /\ registering' = [registering EXCEPT ![w] =
           IF \E i \in DOMAIN users : users[i].username = args.username
           THEN Returned("USERNAME_TAKEN")
           ELSE [pc |-> "nickname", args |-> args]]
    /\ UNCHANGED <<users, notes, noteMedia, inflight, formVars>>

\* register: SELECT ... WHERE nickname = $1 LIMIT 1, then bcrypt.hash
register_SelectNickname(w) ==
    /\ registering[w].pc = "nickname"
    /\ registering' = [registering EXCEPT ![w] =
           IF \E i \in DOMAIN users : users[i].nickname = @.args.nickname
           THEN Returned("NICKNAME_TAKEN")
           ELSE [pc |-> "insert", args |-> @.args]]
    /\ UNCHANGED <<users, notes, noteMedia, inflight, formVars>>

\* register: INSERT INTO users ... RETURNING.  A row that breaks a unique
\* constraint makes the statement throw, and register does not catch it.
register_Insert(w) ==
    /\ registering[w].pc = "insert"
    /\ LET args == registering[w].args
           row == [username |-> args.username, nickname |-> args.nickname,
                   avatarUrl |-> NULL, role |-> "user"]
       IN IF usersUnique(Append(users, row))
          THEN /\ users' = Append(users, row)
               /\ registering' = [registering EXCEPT ![w] = Returned("user")]
          ELSE /\ users' = users
               /\ registering' = [registering EXCEPT ![w] = Returned("thrown")]
    /\ UNCHANGED <<notes, noteMedia, inflight, formVars>>

\* The sessions of the settings requests: a user id, or 0 for no session.
Sessions == 0 .. Cardinality(Usernames)

\* !nickname || newNickname.trim() === ""
nicknameMissing(newNickname) ==
    newNickname = <<>> \/ trim(newNickname) = <<>>

\* UPDATE users SET nickname, avatar_url WHERE id = user.id
settings_set(us, id, newNickname, avatarUrl) ==
    [us EXCEPT ![id] = [@ EXCEPT !.nickname = newNickname,
                                 !.avatarUrl = IF truthy(avatarUrl) THEN avatarUrl
                                               ELSE @]]

\* The response of the settings action.
SettingsResponse(session, newNickname, avatarUrl) ==
    IF session \notin DOMAIN users THEN "401"
    ELSE IF nicknameMissing(newNickname) THEN "400"
    ELSE IF ~usersUnique(settings_set(users, session, newNickname, avatarUrl)) THEN "500"
    ELSE "200"

SettingsAction(session, newNickname, avatarUrl) ==
    IF SettingsResponse(session, newNickname, avatarUrl) # "200"
    THEN Refused
    ELSE /\ users' = settings_set(users, session, newNickname, avatarUrl)
         /\ UNCHANGED <<registering, notes, noteMedia, inflight, formVars>>

----------------------------------------------------------------------------
(* _user.publish component: media list and upload queue *)

\* The files the user picks, by type; a File is told from another by its
\* name, size and lastModified, which the model folds into the name.
ImageFiles == {"a.png", "b.png"}
VideoFiles == {"v.mp4", "big.mp4"}
Files == ImageFiles \cup VideoFiles

\* file.size > MAX_SIZE
tooLarge(file) == file = "big.mp4"

\* What a file picker hands to its change handler.
Selections ==
    {<<f>> : f \in Files} \cup {<<"a.png", "b.png">>, <<"b.png", "v.mp4">>}

\* URL.createObjectURL(file), and the url in the response of /api/upload.
ObjectURL(file) == <<"blob:", file>>
UploadedURL(file) == <<"/upload/", file>>

\* uploadFetcher.data
NoData == [kind |-> "none"]
Success(file) == [kind |-> "success", url |-> UploadedURL(file)]
Failure == [kind |-> "error"]

\* useState initial values and the idle fetcher.
FormInit ==
    [mediaItems |-> <<>>, isUploading |-> FALSE, uploadQueue |-> <<>>,
     currentUpload |-> NULL,
     uploadFetcher |-> [state |-> "idle", data |-> NoData, file |-> NULL]]

\* The state of the component as one record.
Form ==
    [mediaItems |-> mediaItems, isUploading |-> isUploading,
     uploadQueue |-> uploadQueue, currentUpload |-> currentUpload,
     uploadFetcher |-> uploadFetcher]

\* Array.prototype.filter
RECURSIVE Filter(_, _)
Filter(s, keep) ==
    IF s = <<>> THEN <<>>
    ELSE IF Head(s) \in keep THEN <<Head(s)>> \o Filter(Tail(s), keep)
    ELSE Filter(Tail(s), keep)

\* prev.slice(1)
Slice1(s) == IF s = <<>> THEN <<>> ELSE Tail(s)

\* processUploadQueue, run by its effect: the state it leaves from the render c.
processUploadQueue(c) ==
    IF Len(c.uploadQueue) = 0 \/ c.isUploading THEN c
    ELSE [c EXCEPT !.isUploading = TRUE,
                   !.currentUpload = c.uploadQueue[1],
                   !.uploadFetcher = [state |-> "submitting", data |-> @.data,
                                      file |-> c.uploadQueue[1]]]

\* The condition of the effect that handles the upload response.
responseReady(c) ==
    c.uploadFetcher.data # NoData /\ c.uploadFetcher.state = "idle"

\* prev.map(...): the items of the uploaded file get the url.
markUploaded(items, file, url) ==
    [k \in DOMAIN items |->
        IF items[k].file = file
        THEN [items[k] EXCEPT !.url = url, !.isUploaded = TRUE]
        ELSE items[k]]

\* prev.filter(...): the items of the failed file are dropped.
dropFailed(items, file) ==
    Filter(items, {it \in Range(items) : it.file # file})

\* The effect that handles the upload response: it reads the fetcher and
\* currentUpload of the render c and updates the state p that the effects
\* before it have left.
handleUploadResponse(c, p) ==
    IF ~responseReady(c) THEN p
    ELSE [p EXCEPT
            !.mediaItems =
                IF c.currentUpload = NULL THEN @
                ELSE IF c.uploadFetcher.data.kind = "success"
                THEN markUploaded(@, c.currentUpload, c.uploadFetcher.data.url)
                ELSE dropFailed(@, c.currentUpload),
            !.uploadQueue = Slice1(@),
            !.currentUpload = NULL,
            !.isUploading = FALSE]

\* One render and its effects.  deps tells which effects have a changed
\* dependency: [uploadQueue, isUploading] for the queue effect,
\* [uploadFetcher.data, uploadFetcher.state, currentUpload] for the response
\* effect.  The effects run in the order of their declaration on the values
\* of the render, and their updates are applied together.
Commit(c, deps) ==
    LET afterQueue == IF deps.queue THEN processUploadQueue(c) ELSE c
        after == IF deps.response THEN handleUploadResponse(c, afterQueue)
                 ELSE afterQueue
    IN [form |-> after,
        deps |-> [queue |-> (deps.response /\ responseReady(c))
                                \/ after.isUploading # c.isUploading,
                  response |-> after.uploadFetcher # c.uploadFetcher
                                \/ after.currentUpload # c.currentUpload]]

\* The renders that follow an event, until no effect has a changed dependency.
RECURSIVE Render(_, _)
Render(c, deps) ==
    IF ~deps.queue /\ ~deps.response THEN c
    ELSE LET next == Commit(c, deps) IN Render(next.form, next.deps)

\* The component state becomes c.
SetForm(c) ==
    /\ mediaItems' = c.mediaItems
    /\ isUploading' = c.isUploading
    /\ uploadQueue' = c.uploadQueue
    /\ currentUpload' = c.currentUpload
    /\ uploadFetcher' = c.uploadFetcher
    /\ UNCHANGED <<notes, noteMedia, inflight, accountVars>>

\* A new media item of a picked file.
NewItem(file, type) ==
    [id |-> file, url |-> ObjectURL(file), type |-> type, isUploaded |-> FALSE,
     file |-> file]

\* The files of a selection that a handler accepts, in their order.
RECURSIVE Accepted(_, _)
Accepted(files, ok) ==
    IF files = <<>> THEN <<>>
    ELSE IF Head(files) \in ok THEN <<Head(files)>> \o Accepted(Tail(files), ok)
    ELSE Accepted(Tail(files), ok)

\* setMediaItems(prev => [...prev, item]); setUploadQueue(prev => [...prev, file])
addFiles(c, files, type) ==
    [c EXCEPT !.mediaItems = @ \o [k \in DOMAIN files |-> NewItem(files[k], type)],
              !.uploadQueue = @ \o files]

\* The files shown in the media list.
Listed == {mediaItems[k].file : k \in DOMAIN mediaItems}

\* handleImageChange: every picked file of an image type is added.
handleImageChange(files) ==
    /\ \A k \in DOMAIN files : files[k] \notin Listed
    /\ LET added == Accepted(files, ImageFiles)
       IN SetForm(Render(addFiles(Form, added, "image"),
                         [queue |-> added # <<>>, response |-> FALSE]))

\* handleVideoChange: the first picked file is added when it is a video of
\* at most 100MB.
handleVideoChange(files) ==
    /\ \A k \in DOMAIN files : files[k] \notin Listed
    /\ LET added == Accepted(<<files[1]>>, {f \in VideoFiles : ~tooLarge(f)})
       IN SetForm(Render(addFiles(Form, added, "video"),
                         [queue |-> added # <<>>, response |-> FALSE]))

\* removeMediaItem: the item leaves the list, and the file of an item that
\* is not uploaded leaves the queue.
removeMediaItem(id) ==
    /\ \E k \in DOMAIN mediaItems : mediaItems[k].id = id
    /\ LET item == CHOOSE it \in Range(mediaItems) : it.id = id
           queued == ~item.isUploaded
           c == [Form EXCEPT
                   !.uploadQueue = IF queued
                                   THEN Filter(@, Range(@) \ {item.file}) ELSE @,
                   !.mediaItems = Filter(@, {it \in Range(@) : it.id # id})]
       IN SetForm(Render(c, [queue |-> queued, response |-> FALSE]))

\* /api/upload answers the request of the fetcher: uploadFetcher.data is the
\* response and uploadFetcher.state is idle again.
UploadAnswered(ok) ==
    /\ uploadFetcher.state = "submitting"
    /\ LET data == IF ok THEN Success(uploadFetcher.file) ELSE Failure
           c == [Form EXCEPT !.uploadFetcher =
                                 [state |-> "idle", data |-> data, file |-> NULL]]
       IN SetForm(Render(c, [queue |-> FALSE, response |-> TRUE]))

----------------------------------------------------------------------------
(* Requests *)

Slots == 1 .. MaxInFlight

Idle == [op |-> "idle"]

\* No account, no register call, and the publish form as it is mounted.
Untouched ==
    /\ users = <<>>
    /\ registering = [w \in Registrations |-> Returned(NULL)]
    /\ mediaItems = FormInit.mediaItems
    /\ isUploading = FormInit.isUploading
    /\ uploadQueue = FormInit.uploadQueue
    /\ currentUpload = FormInit.currentUpload
    /\ uploadFetcher = FormInit.uploadFetcher

Init ==
    /\ notes = <<>>
    /\ noteMedia = <<>>
    /\ inflight = [w \in Slots |-> Idle]
    /\ Untouched

\* The response of a request that goes on to its first writing statement.
PROCEED == "-"

----------------------------------------------------------------------------
(* _user.publish action and createNote *)

publishErrors_MediaOnly(form) == Len(form.media) = 0

publishErrors(form) ==
    \/ trim(form.title) = <<>>
    \/ trim(form.content) = <<>>
    \/ Len(form.media) = 0

\* The response of the action when it stops before createNote.
PublishResponse(caller, form) ==
    IF getLoggedInUser(caller) = NULL THEN "302"
    ELSE IF publishErrors(form) THEN "400"
    ELSE PROCEED

\* The arguments the action passes to createNote; `status` is what the
\* request carried in a field of that name.
publishArgs(caller, form) ==
    [userId |-> getLoggedInUser(caller), title |-> form.title,
     content |-> form.content, location |-> form.location,
     media |-> mediaArray(form.media), status |-> form.status]

\* createNote up to and including its INSERT INTO travel_notes.  The function
\* validates none of its arguments.
createNote_Insert(w, args) ==
    /\ Len(notes) < MaxNotes
    /\ notes' = Append(notes, createNote_values(args))
    /\ noteMedia' = Append(noteMedia, <<>>)
    /\ inflight' = [inflight EXCEPT ![w] =
           [op |-> "publish", pc |-> "media",
            id |-> Len(notes) + 1, args |-> args]]
    /\ UNCHANGED <<accountVars, formVars>>

\* The action up to and including createNote's INSERT INTO travel_notes.
PublishAction(w, caller, form) ==
    /\ inflight[w] = Idle
    /\ IF PublishResponse(caller, form) # PROCEED
       THEN Refused
       ELSE createNote_Insert(w, publishArgs(caller, form))

\* createNote's INSERT INTO note_media, the getNoteById that builds the
\* return value, and the action's redirect.
createNote_InsertMedia(w) ==
    /\ inflight[w].op = "publish"
    /\ LET r == inflight[w]
       IN noteMedia' = insertMedia(noteMedia, r.id, r.args.media)
    /\ inflight' = [inflight EXCEPT ![w] = Idle]
    /\ UNCHANGED <<notes, accountVars, formVars>>

----------------------------------------------------------------------------
(* _user.edit.$id action and updateNote *)

editAllowed_AnyUser(user, note) == TRUE

\* The ownership check of the edit loader and action.
editAllowed(user, note) ==
    ~(note.userId # user /\ userRole(user) # "admin")

editErrors(form) ==
    \/ trim(form.title) = <<>>
    \/ trim(form.content) = <<>>
    \/ Len(form.media) = 0
    \/ ~\E i \in 1 .. Len(form.media) : form.media[i].type = "image"

\* The response of the action when it stops before updateNote.
EditResponse(caller, id, form) ==
    LET user == getLoggedInUser(caller)
        existingNote == getNoteById(id)
    IN IF user = NULL THEN "302"
       ELSE IF ~existingNote.found THEN "404"
       ELSE IF ~editAllowed(user, existingNote.note) THEN "403"
       ELSE IF editErrors(form) THEN "400"
       ELSE PROCEED

\* The arguments the action passes to updateNote.
editArgs(id, form) ==
    [id |-> id, userId |-> notes[id].userId, title |-> form.title,
     content |-> form.content, location |-> form.location,
     media |-> mediaArray(form.media)]

\* What updateNote returns when its findFirst(id, userId) finds no row.
updateNote_NotFound(id, userId) ==
    IF findFirst(id, userId) THEN PROCEED ELSE "NOTE_NOT_FOUND"

\* updateNote up to and including its findFirst(id, userId).  The running
\* request keeps the caller, the arguments and the location of the row found.
updateNote_FindFirst(w, who, args) ==
    IF updateNote_NotFound(args.id, args.userId) # PROCEED
    THEN Refused
    ELSE /\ inflight' = [inflight EXCEPT ![w] =
                [op |-> "edit", pc |-> "update", who |-> who,
                 id |-> args.id, args |-> args,
                 existingLocation |-> notes[args.id].location]]
         /\ UNCHANGED <<notes, noteMedia, accountVars, formVars>>

\* The action up to and including updateNote's findFirst(id, userId), which
\* finds the row the action has just read.
EditAction(w, caller, id, form) ==
    /\ inflight[w] = Idle
    /\ IF EditResponse(caller, id, form) # PROCEED
       THEN Refused
       ELSE updateNote_FindFirst(w, caller, editArgs(id, form))

\* UPDATE travel_notes SET title, content, location, status, updatedAt
updateNote_Update(w) ==
    /\ inflight[w].op = "edit" /\ inflight[w].pc = "update"
    /\ LET r == inflight[w]
           set(row) == updateNote_set(row, r.args, r.existingLocation)
       IN notes' = UpdateWhereId(notes, r.id, set)
    /\ inflight' = [inflight EXCEPT ![w].pc = "delete"]
    /\ UNCHANGED <<noteMedia, accountVars, formVars>>

\* DELETE FROM note_media WHERE note_id = id
updateNote_DeleteMedia(w) ==
    /\ inflight[w].op = "edit" /\ inflight[w].pc = "delete"
    /\ noteMedia' = deleteMedia(noteMedia, inflight[w].id)
    /\ inflight' = [inflight EXCEPT ![w].pc = "insert"]
    /\ UNCHANGED <<notes, accountVars, formVars>>

\* INSERT INTO note_media, the getNoteById that builds the return value, and
\* the action's redirect to the note.
updateNote_InsertMedia(w) ==
    /\ inflight[w].op = "edit" /\ inflight[w].pc = "insert"
    /\ LET r == inflight[w]
       IN noteMedia' = insertMedia(noteMedia, r.id, r.args.media)
    /\ inflight' = [inflight EXCEPT ![w] = Idle]
    /\ UNCHANGED <<notes, accountVars, formVars>>

\* The tables after a whole updateNote call that no other statement
\* interleaves, on the tables ns and nm: findFirst, UPDATE, DELETE, INSERT.
updateNote_Run(ns, nm, args) ==
    IF ~(args.id \in DOMAIN ns /\ ns[args.id].userId = args.userId)
    THEN [notes |-> ns, noteMedia |-> nm]
    ELSE LET set(row) == updateNote_set(row, args, ns[args.id].location)
         IN [notes |-> UpdateWhereId(ns, args.id, set),
             noteMedia |-> insertMedia(deleteMedia(nm, args.id), args.id, args.media)]

\* The tables after a whole createNote call that no other statement
\* interleaves: INSERT INTO travel_notes, INSERT INTO note_media.
createNote_Run(ns, nm, args) ==
    [notes |-> Append(ns, createNote_values(args)),
     noteMedia |-> insertMedia(Append(nm, <<>>), Len(ns) + 1, args.media)]

\* A statement of a running createNote or updateNote throws: the function
\* catches the error and returns, and the rows written so far stay.
StorageError(w) ==
    /\ inflight[w] # Idle
    /\ inflight' = [inflight EXCEPT ![w] = Idle]
    /\ UNCHANGED <<notes, noteMedia, accountVars, formVars>>

\* What createNote and updateNote return from their catch block.
createNote_catch == [returned |-> "null"]
updateNote_catch == [returned |-> "object", error |-> "UPDATE_FAILED"]

\* JavaScript !result
falsy(result) == result.returned = "null"

\* The end of the publish action: `if (!noteResult) throw`, else redirect.
PublishFinish(noteResult) == IF falsy(noteResult) THEN "500" ELSE "302"

\* The end of the edit action: `if (!updateResult) throw`, else redirect.
EditFinish(updateResult) == IF falsy(updateResult) THEN "500" ELSE "302"

\* The response of the action whose createNote or updateNote took the step
\* StorageError.
StorageErrorResponse(w) ==
    IF inflight[w].op = "publish" THEN PublishFinish(createNote_catch)
    ELSE EditFinish(updateNote_catch)

----------------------------------------------------------------------------
(* _user.my-notes action and deleteNote *)

\* What deleteNote returns.
deleteNote_Result(id, userId) ==
    IF findFirst(id, userId) THEN "success" ELSE "NOTE_NOT_FOUND"

\* deleteNote.  Its findFirst reads the id and the owner of the row only,
\* which no statement changes, so it is taken together with the UPDATE that
\* follows it.
deleteNote(id, userId) ==
    IF deleteNote_Result(id, userId) # "success"
    THEN Refused
    ELSE /\ notes' = deleteNote_set(notes, id)
         /\ UNCHANGED <<noteMedia, inflight, accountVars, formVars>>

\* The response of the action, intent = delete.
MyNotesResponse(caller, noteId) ==
    LET user == getLoggedInUser(caller)
    IN IF user = NULL THEN "302"
       ELSE IF noteId = NoId THEN "400"
       ELSE IF deleteNote_Result(noteId, user) # "success" THEN "500"
       ELSE "200"

MyNotesAction(caller, noteId) ==
    IF MyNotesResponse(caller, noteId) # "200"
    THEN Refused
    ELSE deleteNote(noteId, getLoggedInUser(caller))

----------------------------------------------------------------------------
(* admin._index action *)

AdminActions == {"approve", "reject", "delete", "other"}

AdminResponse_AnyStaffDeletes(a, action, noteId, rejectionReason) ==
    IF ~requireAdminUser(a) THEN "302"
    ELSE IF noteId = NoId THEN "400"
    ELSE CASE action = "approve" -> "200"
           [] action = "reject" -> IF ~truthy(rejectionReason) THEN "400" ELSE "200"
           [] action = "delete" -> "200"
           [] OTHER -> "400"

\* The response of the action.
AdminResponse(a, action, noteId, rejectionReason) ==
    IF ~requireAdminUser(a) THEN "302"
    ELSE IF noteId = NoId THEN "400"
    ELSE CASE action = "approve" -> "200"
           [] action = "reject" -> IF ~truthy(rejectionReason) THEN "400" ELSE "200"
           [] action = "delete" -> IF adminRole(a) # "admin" THEN "403" ELSE "200"
           [] OTHER -> "400"

AdminAction(a, action, noteId, rejectionReason) ==
    IF AdminResponse(a, action, noteId, rejectionReason) # "200"
    THEN Refused
    ELSE /\ notes' =
              CASE action = "approve" ->
                     updateNoteStatus(notes, noteId, "approved", UNDEFINED)
                [] action = "reject" ->
                     updateNoteStatus(notes, noteId, "rejected", rejectionReason)
                [] action = "delete" ->
                     adminDeleteNote(notes, noteId)
         /\ UNCHANGED <<noteMedia, inflight, accountVars, formVars>>

----------------------------------------------------------------------------
(* Specification *)

Next ==
    \/ \E w \in Slots, caller \in Publishers \cup {ANON}, form \in PublishForms :
          PublishAction(w, caller, form)
    \/ \E w \in Slots : createNote_InsertMedia(w)
    \/ \E w \in Slots, caller \in Callers, id \in 1 .. MaxNotes, form \in EditForms :
          EditAction(w, caller, id, form)
    \/ \E w \in Slots : updateNote_Update(w)
    \/ \E w \in Slots : updateNote_DeleteMedia(w)
    \/ \E w \in Slots : updateNote_InsertMedia(w)
    \/ \E w \in Slots : StorageError(w)
    \/ \E caller \in Callers, noteId \in NoteIdInputs : MyNotesAction(caller, noteId)
    \/ \E a \in AdminCallers, action \in AdminActions, noteId \in NoteIdInputs,
          rejectionReason \in ReasonInputs :
          AdminAction(a, action, noteId, rejectionReason)

Spec == Init /\ [][Next]_vars

----------------------------------------------------------------------------
(* The exported functions of notes.server.ts called with any arguments of *)
(* their parameter types, next to the publish route.                      *)

Ordered(t, u, o) == [type |-> t, url |-> u, order |-> o]

\* Arguments of createNote: media in any order of `order`, media without
\* `order`, an empty title, an empty content, no media.
CreateArgs ==
    { [userId |-> "user1", title |-> <<"T">>, content |-> <<"z">>,
       location |-> UNDEFINED, status |-> UNDEFINED,
       media |-> <<Ordered("image", "a", 2), Ordered("image", "b", 0),
                   Ordered("image", "c", 1)>>],
      [userId |-> "user2", title |-> <<>>, content |-> <<"z">>,
       location |-> "Dali", status |-> UNDEFINED,
       media |-> <<Image("a")>>],
      [userId |-> "user1", title |-> <<"T">>, content |-> <<>>,
       location |-> "Dali", status |-> UNDEFINED,
       media |-> <<>>] }

\* Arguments of updateNote: every id, every owner id.
UpdateArgs ==
    { [id |-> i, userId |-> u, title |-> <<"U">>, content |-> <<"y">>,
       location |-> UNDEFINED,
       media |-> <<Ordered("image", "y", 1), Ordered("image", "x", 0)>>] :
      i \in 1 .. MaxNotes, u \in Publishers }

ServiceNext ==
    \/ \E w \in Slots, caller \in Publishers \cup {ANON}, form \in PublishForms :
          PublishAction(w, caller, form)
    \/ \E w \in Slots, args \in CreateArgs :
          inflight[w] = Idle /\ createNote_Insert(w, args)
    \/ \E w \in Slots : createNote_InsertMedia(w)
    \/ \E w \in Slots, args \in UpdateArgs :
          inflight[w] = Idle /\ updateNote_FindFirst(w, args.userId, args)
    \/ \E w \in Slots : updateNote_Update(w)
    \/ \E w \in Slots : updateNote_DeleteMedia(w)
    \/ \E w \in Slots : updateNote_InsertMedia(w)
    \/ \E w \in Slots : StorageError(w)
    \/ \E id \in 1 .. MaxNotes, userId \in Publishers : deleteNote(id, userId)

ServiceSpec == Init /\ [][ServiceNext]_vars

----------------------------------------------------------------------------
(* Concurrent updateNote calls on one note *)

ConcSlots == 1 .. ConcurrentCalls

\* A note of user1 that a complete publish request has created.
ConcInit ==
    LET form == CHOOSE f \in PublishForms :
                    ~publishErrors(f) /\ f.status = UNDEFINED
        done == createNote_Run(<<>>, <<>>, publishArgs("user1", form))
    IN /\ notes = done.notes
       /\ noteMedia = done.noteMedia
       /\ inflight = [w \in ConcSlots |-> Idle]
       /\ Untouched

\* The edits of the note that its owner submits.
ConcArgs ==
    { [id |-> 1, userId |-> "user1", title |-> <<"A">>, content |-> <<"a">>,
       location |-> "Dali", media |-> mediaArray(<<Image("x")>>)],
      [id |-> 1, userId |-> "user1", title |-> <<"B">>, content |-> <<"b">>,
       location |-> "Sanya", media |-> mediaArray(<<Image("y"), Image("z")>>)] }

ConcNext ==
    \/ \E w \in ConcSlots, args \in ConcArgs :
          inflight[w] = Idle /\ updateNote_FindFirst(w, args.userId, args)
    \/ \E w \in ConcSlots : updateNote_Update(w)
    \/ \E w \in ConcSlots : updateNote_DeleteMedia(w)
    \/ \E w \in ConcSlots : updateNote_InsertMedia(w)

ConcSpec == ConcInit /\ [][ConcNext]_vars

----------------------------------------------------------------------------
(* Registrations and profile updates *)

AccountNext ==
    \/ \E w \in Registrations, args \in RegisterArgs : register_SelectUsername(w, args)
    \/ \E w \in Registrations : register_SelectNickname(w)
    \/ \E w \in Registrations : register_Insert(w)
    \/ \E session \in Sessions, newNickname \in SettingsNicknames,
          avatarUrl \in AvatarInputs :
          SettingsAction(session, newNickname, avatarUrl)

AccountSpec == Init /\ [][AccountNext]_vars

----------------------------------------------------------------------------
(* The publish form in the browser *)

UploadNext ==
    \/ \E files \in Selections : handleImageChange(files)
    \/ \E files \in Selections : handleVideoChange(files)
    \/ \E id \in Files : removeMediaItem(id)
    \/ \E ok \in BOOLEAN : UploadAnswered(ok)

UploadSpec == Init /\ [][UploadNext]_vars

TypeOK ==
    /\ Len(notes) <= MaxNotes
    /\ Len(noteMedia) = Len(notes)
    /\ \A i \in NoteIds : notes[i].status \in NoteStatus

----------------------------------------------------------------------------
(* Claims *)

\* Ranges of the arguments of the listing functions.
Limits == {1, 10, 20}
Offsets == {0, 1}
Pages == {1, 2}
StatusFilters == {UNDEFINED} \cup NoteStatus
Searches == {<<>>, <<"L">>, <<"%">>}


\* The running edit requests.
Editing(w) == inflight[w].op = "edit"

\* C1: in every reachable state each note has a rejectionReason if and only
\* if its status is rejected.
C1_ReasonIffRejected ==
    \A i \in NoteIds :
        (notes[i].rejectionReason # NULL) <=> (notes[i].status = "rejected")

\* C2: the UPDATE of every updateNote call leaves the note pending with a
\* null rejectionReason, whatever its status and reason were before.
C2_UpdateClearsReason ==
    [][\A w \in Slots :
          updateNote_Update(w) =>
              /\ notes'[inflight[w].id].status = "pending"
              /\ notes'[inflight[w].id].rejectionReason = NULL]_vars

\* C3: the row every createNote call inserts has status pending, whatever
\* status the request supplied.
C3_CreatedPending ==
    [][\A w \in Slots, caller \in Callers, form \in PublishForms :
          (PublishAction(w, caller, form) /\ Len(notes') = Len(notes) + 1) =>
              notes'[Len(notes')].status = "pending"]_vars

C3_Witness ==
    \E w \in Slots :
        /\ inflight[w].op = "publish"
        /\ inflight[w].args.status = "approved"
        /\ notes[inflight[w].id].status = "pending"

\* The notes the home page lists (getPublishedNotes({limit: 20})).
Published == Range(getPublishedNotes(20, 0))

\* A moderator's approve request on note i takes this step.
ApprovedByModerator(i) ==
    \E a \in AdminCallers, r \in ReasonInputs :
        /\ adminRole(a) \in {"auditor", "admin"}
        /\ AdminAction(a, "approve", i, r)

Reviewed ==
    UNION {Range(getNotesForReview(status, page, limit, search).notes) :
              status \in StatusFilters, page \in Pages, limit \in Limits,
              search \in Searches}

\* C5 as stated: a deleted note is returned by none of getPublishedNotes,
\* getNotesForReview and getUserNotes.
C5_DeletedNeverReturned ==
    \A i \in NoteIds :
        notes[i].isDeleted =>
            /\ i \notin Published
            /\ i \notin Reviewed
            /\ \A u \in Users : i \notin Range(getUserNotes(u))

\* C5 as amended: a deleted note is returned by none of getPublishedNotes,
\* getNotesForReview and the my-notes loader, which drops the deleted notes
\* from what getUserNotes returned.
C5_DeletedNeverListed ==
    \A i \in NoteIds :
        notes[i].isDeleted =>
            /\ \A limit \in Limits, offset \in Offsets :
                  i \notin Range(getPublishedNotes(limit, offset))
            /\ i \notin Reviewed
            /\ \A caller \in Callers : i \notin Range(MyNotesLoader(caller))

C5_Witness ==
    \E i \in NoteIds :
        /\ notes[i].isDeleted /\ notes[i].status = "approved"
        /\ i \in Range(getUserNotes(notes[i].userId))
        /\ i \notin Range(MyNotesLoader(notes[i].userId))
        /\ \E j \in NoteIds : j \in Range(MyNotesLoader(notes[i].userId))

\* C6: the note loader answers a request for a pending or rejected note with
\* the note when the caller is its owner or has the admin role, and with 403
\* for every other caller.
C6_UnapprovedOwnerOrAdmin ==
    \A i \in NoteIds, caller \in Callers :
        notes[i].status \in {"pending", "rejected"} =>
            NoteLoader(caller, i) =
                IF caller \in Users
                   /\ (caller = notes[i].userId \/ userRole(caller) = "admin")
                THEN "200" ELSE "403"

C6_Witness ==
    \E i \in NoteIds :
        /\ notes[i].status = "rejected"
        /\ notes[i].userId = "user1"
        /\ NoteLoader("user1", i) = "200"
        /\ NoteLoader("admin", i) = "200"
        /\ NoteLoader("user2", i) = "403"
        /\ NoteLoader("auditor1", i) = "403"
        /\ NoteLoader(ANON, i) = "403"

\* A moderator's approve or reject request on note i takes this step.
SetStatusByModerator(i) ==
    \E a \in AdminCallers, action \in {"approve", "reject"}, r \in ReasonInputs :
        /\ adminRole(a) \in {"auditor", "admin"}
        /\ AdminAction(a, action, i, r)

\* The UPDATE of an edit of note i takes this step, and the caller of the
\* edit is one of `who`.
EditedBy(i, who) ==
    \E w \in Slots :
        /\ updateNote_Update(w)
        /\ inflight[w].id = i
        /\ inflight[w].who \in who

\* The status of note i becomes approved or rejected in this step.
Decided(i) ==
    /\ notes'[i].status \in {"approved", "rejected"}
    /\ notes'[i].status # notes[i].status

\* The status of note i goes from approved or rejected to pending in this step.
Reopened(i) ==
    /\ notes[i].status \in {"approved", "rejected"}
    /\ notes'[i].status = "pending"

C9_OtherStatusClearsReason ==
    \A i \in NoteIds, status \in {"approved", "pending"},
       r \in ReasonInputs \cup {UNDEFINED} :
        LET after == updateNoteStatus(notes, i, status, r)[i]
        IN after.status = status /\ after.rejectionReason = NULL

C9_Witness ==
    \E i \in NoteIds :
        /\ notes[i].rejectionReason = " r "
        /\ updateNoteStatus(notes, i, "approved", UNDEFINED)[i].rejectionReason = NULL
        /\ \E j \in NoteIds :
              notes[j].status = "approved" /\ notes[j].rejectionReason = NULL

\* C10: while an updateNote that replaces three media rows by one is
\* running, every step leaves the note with the three old rows or with the
\* one new row.
C10_MediaSwapAtomic ==
    [][\A w \in Slots :
          (/\ Editing(w)
           /\ Len(noteMedia[inflight[w].id]) = 3
           /\ Len(inflight[w].args.media) = 1) =>
              noteMedia'[inflight[w].id] \in
                  {noteMedia[inflight[w].id], mediaRows(inflight[w].args.media)}]_vars

\* The note a running createNote has inserted.
Creating(w) == inflight[w].op = "publish"

\* C11: a note a createNote has inserted is never readable without the media
\* of the call, and a createNote that fails after its INSERT INTO
\* travel_notes leaves no row of the note.
C11_CreateAllOrNothing ==
    /\ [](\A w \in Slots :
            (Creating(w) /\ getNoteById(inflight[w].id).found) =>
                getNoteById(inflight[w].id).media = mediaRows(inflight[w].args.media))
    /\ [][\A w \in Slots :
            (Creating(w) /\ StorageError(w)) =>
                inflight[w].id \notin DOMAIN notes']_vars

\* Note id is not a note of user u: there is no such note, or it has
\* another owner.
NotOwned(id, u) == id \notin NoteIds \/ notes[id].userId # u

\* C12: updateNote and deleteNote, called for an id that does not exist or
\* with an owner id that does not own the note, return NOTE_NOT_FOUND in
\* both cases and change no row.
C12_NotOwnedIsNotFound ==
    /\ [](\A id \in 1 .. MaxNotes, u \in Users :
            NotOwned(id, u) =>
                /\ updateNote_NotFound(id, u) = "NOTE_NOT_FOUND"
                /\ deleteNote_Result(id, u) = "NOTE_NOT_FOUND")
    /\ [][/\ \A w \in Slots, args \in UpdateArgs :
               (/\ inflight[w] = Idle
                /\ NotOwned(args.id, args.userId)
                /\ updateNote_FindFirst(w, args.userId, args)) => UNCHANGED vars
          /\ \A id \in 1 .. MaxNotes, u \in Publishers :
               (NotOwned(id, u) /\ deleteNote(id, u)) => UNCHANGED vars]_vars

C12_Witness ==
    /\ Len(notes) = 1
    /\ notes[1].userId = "user1" /\ ~notes[1].isDeleted
    /\ noteMedia[1] # <<>>
    /\ updateNote_NotFound(1, "user2") = "NOTE_NOT_FOUND"
    /\ updateNote_NotFound(MaxNotes, "user1") = "NOTE_NOT_FOUND"
    /\ deleteNote_Result(1, "user2") = deleteNote_Result(MaxNotes, "user2")
    /\ deleteNote_Result(1, "user1") = "success"

FlagSet(i) == [notes EXCEPT ![i].isDeleted = TRUE]

C15_DeletedAdminOnly ==
    \A i \in NoteIds :
        notes[i].isDeleted =>
            /\ getNoteById(i).found /\ getNoteById(i).note.isDeleted
            /\ \A caller \in Callers :
                  NoteLoader(caller, i) = "200" =>
                      caller \in Users /\ userRole(caller) = "admin"

\* No createNote or updateNote is running on note i.
Settled(i) == \A w \in Slots : inflight[w] = Idle \/ inflight[w].id # i

\* C16: whatever the order of the entries in the media list given to
\* createNote or updateNote, getNoteById returns the media of the note in
\* ascending order of `order`.
C16_MediaSortedByOrder ==
    \A i \in NoteIds :
        Settled(i) =>
            \A media \in getNoteById_media(i) :
                \A k \in 1 .. Len(media) - 1 : media[k].order <= media[k + 1].order

\* C17: when a statement of a running createNote or updateNote fails, the
\* publish or edit action that called it answers with an error, never with
\* the redirect of a success.
C17_FailureIsReported ==
    [][\A w \in Slots : StorageError(w) => StorageErrorResponse(w) = "500"]_vars

\* A title or a content of no characters.
EmptyText(x) == x.title = <<>> \/ x.content = <<>>

\* C18 as stated: createNote, called with an empty title or an empty
\* content, inserts no row.
C18_CreateNoteRejectsEmpty ==
    [][\A w \in Slots, args \in CreateArgs :
          (EmptyText(args) /\ inflight[w] = Idle /\ createNote_Insert(w, args))
              => UNCHANGED <<notes, noteMedia>>]_vars

\* C18 as amended: the publish action answers a form with an empty title or
\* an empty content with 400 and calls createNote not at all, so no note row
\* and no media row is created; createNote itself checks neither.
C18_PublishRejectsEmpty ==
    /\ [](\A caller \in Publishers, form \in PublishForms :
            EmptyText(form) => PublishResponse(caller, form) = "400")
    /\ [][\A w \in Slots, caller \in Publishers, form \in PublishForms :
            (EmptyText(form) /\ PublishAction(w, caller, form))
                => UNCHANGED <<notes, noteMedia>>]_vars

C18_Witness ==
    /\ \E form \in PublishForms :
          /\ form.title = <<>> /\ form.media # <<>>
          /\ PublishResponse("user1", form) = "400"
    /\ \E form \in PublishForms :
          /\ form.content = <<>> /\ form.media # <<>>
          /\ PublishResponse("user2", form) = "400"
    /\ \E i \in NoteIds : notes[i].title = <<>>
    /\ \E i \in NoteIds : notes[i].title # <<>> /\ notes[i].content # <<>>

\* C19: the popular destinations are at most 6 groups in descending order of
\* count, and the count of a location is the number of its notes that are
\* approved and not deleted.
C19_PopularCountsLiveApproved ==
    \A result \in popularDestinations :
        /\ Len(result) <= 6
        /\ \A k \in 1 .. Len(result) - 1 : result[k].count >= result[k + 1].count
        /\ \A k \in 1 .. Len(result) :
              result[k].count =
                  Cardinality({i \in NoteIds :
                                  /\ notes[i].status = "approved"
                                  /\ ~notes[i].isDeleted
                                  /\ notes[i].location = result[k].location})

\* Page sizes of the review listing.
PageSizes == {1, 2, 10}

\* The items of the pages p .. last of the review listing, one after another.
RECURSIVE ReviewPagesFrom(_, _, _, _, _)
ReviewPagesFrom(status, limit, search, p, last) ==
    IF p > last THEN <<>>
    ELSE getNotesForReview(status, p, limit, search).notes
             \o ReviewPagesFrom(status, limit, search, p + 1, last)

C21_UpdateStoresSupplied ==
    [][\A w \in Slots :
          updateNote_Update(w) =>
              LET r == inflight[w]
              IN /\ notes'[r.id].title = r.args.title
                 /\ notes'[r.id].content = r.args.content
                 /\ notes'[r.id].location = r.args.location]_vars

\* Arguments of an updateNote call on note i by its owner: what the edit
\* route passes, and media with a supplied order or without one.
RunArgs(i) ==
    {editArgs(i, form) : form \in EditForms}
        \cup {args \in UpdateArgs : args.id = i /\ args.userId = notes[i].userId}
        \cup {[id |-> i, userId |-> notes[i].userId, title |-> <<"U">>,
               content |-> <<"y">>, location |-> "Dali",
               media |-> <<Image("p"), Ordered("video", "q", 5)>>]}

\* The rows the claim expects for a media list.
ExpectedRows(media) ==
    [k \in 1 .. Len(media) |->
        [mediaType |-> media[k].type, url |-> media[k].url,
         order |-> IF "order" \in DOMAIN media[k] THEN media[k].order ELSE k - 1]]

\* C22: after an updateNote call on note i the media rows of the note are
\* the entries of the media list of the call, with the supplied order or the
\* list index, and the media rows of every other note are what they were.
C22_MediaReplaced ==
    \A i \in NoteIds :
        \A args \in RunArgs(i) :
            LET after == updateNote_Run(notes, noteMedia, args).noteMedia
            IN /\ after[i] = ExpectedRows(args.media)
               /\ \A j \in NoteIds \ {i} : after[j] = noteMedia[j]

C22_Witness ==
    \E i, j \in NoteIds :
        /\ \A w \in Slots : inflight[w] = Idle
        /\ notes[i].title = <<"S">>
        /\ noteMedia[i] = <<[mediaType |-> "image", url |-> "b", order |-> 0]>>
        /\ noteMedia[i] = updateNote_Run(notes, noteMedia,
                              editArgs(i, CHOOSE f \in EditForms : ~editErrors(f))).noteMedia[i]
        /\ Len(noteMedia[j]) = 3

\* C23: when no updateNote call is running any more, an edited note has the
\* title, content, location and media rows of one single call.
C23_LastWriteWins ==
    ((\A w \in DOMAIN inflight : inflight[w] = Idle)
        /\ \E args \in ConcArgs : notes[1].title = args.title)
    => \E args \in ConcArgs :
          /\ notes[1].title = args.title
          /\ notes[1].content = args.content
          /\ notes[1].location = args.location
          /\ noteMedia[1] = mediaRows(args.media)

\* Arguments of a createNote call: what the publish route passes for a form
\* of a logged-in user, and the arguments of the direct calls.
CreateRunArgs ==
    {publishArgs(u, form) : u \in Publishers, form \in PublishForms} \cup CreateArgs

\* C24: an updateNote, an updateNoteStatus, a deleteNote or an
\* adminDeleteNote call applied a second time with the same arguments leaves
\* the notes and their media rows as the first application left them; a
\* second createNote call with the same arguments adds a second note.
C24_Idempotent ==
    /\ \A i \in NoteIds :
          /\ \A args \in RunArgs(i) :
                LET once == updateNote_Run(notes, noteMedia, args)
                IN updateNote_Run(once.notes, once.noteMedia, args) = once
          /\ \A status \in NoteStatus, r \in ReasonInputs \cup {UNDEFINED} :
                LET once == updateNoteStatus(notes, i, status, r)
                IN updateNoteStatus(once, i, status, r) = once
          /\ deleteNote_set(deleteNote_set(notes, i), i) = deleteNote_set(notes, i)
          /\ adminDeleteNote(adminDeleteNote(notes, i), i) = adminDeleteNote(notes, i)
    /\ \A args \in CreateRunArgs :
          LET once == createNote_Run(notes, noteMedia, args)
              twice == createNote_Run(once.notes, once.noteMedia, args)
              n == Len(notes)
          IN /\ Len(once.notes) = n + 1
             /\ Len(twice.notes) = n + 2
             /\ twice.notes[n + 2] = twice.notes[n + 1]
             /\ twice.noteMedia[n + 2] = twice.noteMedia[n + 1]

C24_Witness ==
    /\ Len(notes) = 2
    /\ \A w \in Slots : inflight[w] = Idle
    /\ notes[1] = notes[2] /\ noteMedia[1] = noteMedia[2]
    /\ notes[1].title = <<"S">> /\ noteMedia[1] = ExpectedRows(<<Image("b")>>)
    /\ notes[1].status = "rejected" /\ notes[1].rejectionReason = " r "
    /\ notes[1].isDeleted

\* C25: no step of an edit, a status change or a delete, whoever the caller
\* is, changes the userId of a note that exists.
C25_OwnerFixed ==
    [][\A i \in NoteIds : notes'[i].userId = notes[i].userId]_vars

C25_Witness ==
    \E w \in Slots :
        /\ Editing(w) /\ inflight[w].pc = "insert"
        /\ inflight[w].who = "admin"
        /\ notes[inflight[w].id].userId = "user1"
        /\ notes[inflight[w].id].title = inflight[w].args.title
        /\ notes[inflight[w].id].isDeleted
        /\ \E j \in NoteIds : notes[j].userId = "user2" /\ notes[j].status = "rejected"

\* The media set of note i: the type and url of each of its rows.
MediaSet(nm, i) ==
    {[mediaType |-> nm[i][k].mediaType, url |-> nm[i][k].url] : k \in DOMAIN nm[i]}

\* C27: while an updateNote call on note i is under way, a step that starts
\* and ends with note i approved leaves its title, its content and its media
\* set as they were.
C27_ApprovedIsFrozen ==
    [][\A i \in NoteIds :
          ((\E w \in Slots : Editing(w) /\ inflight[w].id = i)
              /\ notes[i].status = "approved" /\ notes'[i].status = "approved") =>
              /\ notes'[i].title = notes[i].title
              /\ notes'[i].content = notes[i].content
              /\ MediaSet(noteMedia', i) = MediaSet(noteMedia, i)]_vars

\* C28: a note whose isDeleted flag is true keeps it in every step, and a
\* deleted note is returned by none of getPublishedNotes, getNotesForReview
\* and the my-notes loader.
C28_DeleteIrreversible ==
    /\ [][\A i \in NoteIds : notes[i].isDeleted => notes'[i].isDeleted]_vars
    /\ [](\A i \in NoteIds :
             notes[i].isDeleted =>
                 /\ i \notin Published
                 /\ i \notin Reviewed
                 /\ \A caller \in Callers : i \notin Range(MyNotesLoader(caller)))

C28_Witness ==
    \E i \in NoteIds :
        /\ notes[i].isDeleted
        /\ notes[i].title = <<"S">>
        /\ notes[i].status = "approved"
        /\ i \notin Published
        /\ \A w \in Slots : inflight[w] = Idle

\* The register call w with arguments args takes a step.
RegisterStep(w, args) ==
    \/ register_SelectUsername(w, args)
    \/ /\ registering[w].pc # "idle"
       /\ registering[w].args = args
       /\ register_SelectNickname(w) \/ register_Insert(w)

\* A user has the username or the nickname of args.
Taken(args) ==
    \E i \in DOMAIN users :
        users[i].username = args.username \/ users[i].nickname = args.nickname

\* C26: in every reachable state no two users share a username and no two
\* users share a nickname; a step of a register call whose username or
\* nickname a user already has leaves the users as they are, and a register
\* call that returns a user has added exactly that user.
C26_UniqueNames ==
    /\ [](\A i, j \in DOMAIN users :
             i # j => /\ users[i].username # users[j].username
                      /\ users[i].nickname # users[j].nickname)
    /\ [][\A w \in Registrations, args \in RegisterArgs :
             RegisterStep(w, args) =>
                 /\ Taken(args) => users' = users
                 /\ registering'[w] = Returned("user") =>
                        /\ Len(users') = Len(users) + 1
                        /\ users'[Len(users')].username = args.username
                        /\ users'[Len(users')].nickname = args.nickname]_vars

C26_Witness ==
    /\ Len(users) = 2
    /\ \E w \in Registrations : registering[w] = Returned("thrown")
    /\ \E w \in Registrations : registering[w] = Returned("USERNAME_TAKEN")
    /\ \E i \in DOMAIN users : users[i].avatarUrl = "/upload/p.png"

\* C29: whenever the upload queue is empty, no upload has been started and
\* the fetcher is idle, every item of the media list is marked uploaded.
C29_NoItemLeftBehind ==
    (uploadQueue = <<>> /\ ~isUploading /\ uploadFetcher.state = "idle") =>
        \A k \in DOMAIN mediaItems : mediaItems[k].isUploaded

\* The step is the answer to the upload of file f.
UploadOf(f) ==
    /\ uploadFetcher.state = "submitting" /\ uploadFetcher.file = f
    /\ \E ok \in BOOLEAN : UploadAnswered(ok)

\* The step is the removal of the media item of file f.
RemovalOf(f) ==
    \E k \in DOMAIN mediaItems :
        mediaItems[k].file = f /\ removeMediaItem(mediaItems[k].id)

\* C30: a file leaves the upload queue only in the step that answers its own
\* upload or in the step that removes its item, and an item that is marked
\* uploaded carries the url of the upload of its own file.
C30_OneAtATimeInOrder ==
    /\ [][\A f \in Files :
             (f \in Range(uploadQueue) /\ f \notin Range(uploadQueue')) =>
                 UploadOf(f) \/ RemovalOf(f)]_vars
    /\ [](\A k \in DOMAIN mediaItems :
             mediaItems[k].isUploaded =>
                 mediaItems[k].url = UploadedURL(mediaItems[k].file))

====
